---------------------------- MODULE Spec2Model ----------------------------
(***************************************************************************)
(* Model of vigenere_cipher.py (letter-only Vigenere cipher with a click   *)
(* command line and two JSON records, encrypted.json and decrypted.json).  *)
(*                                                                         *)
(* A Python str is a sequence of code points; a list[str] is a sequence of *)
(* such sequences.  A raised exception is the name of its class in the     *)
(* field "raised" of a result ("none" when nothing was raised).  A file is *)
(* a set: {} when the file does not exist, {content} when it does.         *)
(***************************************************************************)
EXTENDS Integers, Sequences, FiniteSets, TLC

VARIABLES encrypted_json, decrypted_json, run, fn

vars == <<encrypted_json, decrypted_json, run, fn>>

-----------------------------------------------------------------------------
(* Bounds of the explored inputs.                                          *)

\* Command-line runs: the longest plaintext.
MaxTextLen == 2
\* Direct calls of generate_key: the longest text and key.
MaxFnTextLen == 3
MaxFnKeyLen == 2
\* Direct calls of cipher: the longest text and expanded key.
MaxCipherTextLen == 2
MaxCipherKeyLen == 3

-----------------------------------------------------------------------------
(* Python string primitives used by the program.                           *)

\* string.ascii_uppercase, "ABCDEFGHIJKLMNOPQRSTUVWXYZ"
ascii_uppercase == [j \in 1..26 |-> 64 + j]

\* alp = list(ascii_uppercase): the 26 one-character strings "A".."Z"
alp == [j \in 1..26 |-> <<ascii_uppercase[j]>>]

\* str.upper() of one code point (full Unicode case mapping, which can give
\* two code points): a-z, e-acute, sharp s -> "SS", dotless i -> "I",
\* long s -> "S", the ligatures U+FB05 and U+FB06 -> "ST"; any other code
\* point the model draws is its own upper case.
upper_char(c) ==
    IF c \in 97..122 THEN <<c - 32>>
    ELSE IF c = 233 THEN <<201>>
    ELSE IF c = 223 THEN <<83, 83>>
    ELSE IF c = 305 THEN <<73>>
    ELSE IF c = 383 THEN <<83>>
    ELSE IF c \in {64261, 64262} THEN <<83, 84>>
    ELSE <<c>>

\* str.lower() of one code point: A-Z, E-acute, the Kelvin sign U+212A -> "k".
lower_char(c) ==
    IF c \in 65..90 THEN <<c + 32>>
    ELSE IF c = 201 THEN <<233>>
    ELSE IF c = 8490 THEN <<107>>
    ELSE <<c>>

RECURSIVE upper(_)
upper(s) == IF s = <<>> THEN <<>> ELSE upper_char(Head(s)) \o upper(Tail(s))

RECURSIVE lower(_)
lower(s) == IF s = <<>> THEN <<>> ELSE lower_char(Head(s)) \o lower(Tail(s))

\* "s in t" for two strings: s is a contiguous substring of t.
str_in(s, t) ==
    \E k \in 0..(Len(t) - Len(s)) : \A j \in 1..Len(s) : t[k + j] = s[j]

\* "".join(c) for a list of strings
RECURSIVE join(_)
join(c) == IF c = <<>> THEN <<>> ELSE Head(c) \o join(Tail(c))

\* list.index(x): the 0-based position of x, ValueError when x is absent.
list_index(l, x) ==
    LET found == {j \in 1..Len(l) : l[j] = x}
    IN  IF found = {}
        THEN [raised |-> "ValueError", value |-> 0]
        ELSE [raised |-> "none",
              value |-> (CHOOSE j \in found : \A m \in found : j <= m) - 1]

-----------------------------------------------------------------------------
(* generate_key                                                            *)

\* The case rule of the second loop: lower case when ord(i) >= 97.
force_case_swapped(i, k) == IF i > 97 THEN lower(k) ELSE upper(k)

force_case(i, k) == IF i >= 97 THEN lower(k) ELSE upper(k)

\* e = i % len(key) for the 0-based position i (line 71)
key_position(i, key) == i % Len(key)

\* First loop (lines 69-72): one key character per text position, the key
\* repeated cyclically.
expand_key(plaintext, key) ==
    [ndx \in 1..Len(plaintext) |-> <<key[key_position(ndx - 1, key) + 1]>>]

\* Both loops.  len(key) = 0 makes the first iteration of the first loop
\* divide by zero; an empty text runs no iteration at all.  The second loop
\* (lines 75-79) forces the case of every element.
generate_key(plaintext, key) ==
    IF Len(plaintext) > 0 /\ Len(key) = 0
    THEN [raised |-> "ZeroDivisionError", value |-> <<>>]
    ELSE LET cipher_key == expand_key(plaintext, key)
         IN  [raised |-> "none",
              value |-> [ndx \in 1..Len(plaintext) |->
                           force_case(plaintext[ndx], cipher_key[ndx])]]

-----------------------------------------------------------------------------
(* cipher                                                                  *)

\* Lines 107-110: the index of the output letter.
alp_ndx_always_add(p_ndx, k_ndx, encrypt) == (p_ndx + k_ndx) % 26

alp_ndx(p_ndx, k_ndx, encrypt) ==
    IF encrypt THEN (p_ndx + k_ndx) % 26 ELSE (p_ndx - k_ndx) % 26

\* One iteration of the loop of lines 99-117 for the character i at the
\* 1-based position ndx: the string appended to c, or the exception raised.
cipher_char(i, ndx, cipher_key, encrypt) ==
    LET s == upper(<<i>>)
        p == list_index(alp, s)
    IN  IF ~ str_in(s, ascii_uppercase) THEN [raised |-> "none", value |-> <<i>>]
        ELSE IF p.raised # "none" THEN [raised |-> p.raised, value |-> <<>>]
        ELSE IF ndx > Len(cipher_key) THEN [raised |-> "IndexError", value |-> <<>>]
        ELSE LET k == list_index(alp, upper(cipher_key[ndx]))
             IN  IF k.raised # "none" THEN [raised |-> k.raised, value |-> <<>>]
                 ELSE LET a == alp_ndx(p.value, k.value, encrypt)
                      IN  IF i >= 97 /\ i <= 122
                          THEN [raised |-> "none", value |-> lower(alp[a + 1])]
                          ELSE IF i >= 65 /\ i <= 90
                          THEN [raised |-> "none", value |-> upper(alp[a + 1])]
                          ELSE [raised |-> "none", value |-> <<i>>]

\* Lines 98-119: the loop over the text stops at the first iteration that
\* raises; otherwise encrypted_text is the join of what was appended.
encrypted_text(text, cipher_key, encrypt) ==
    LET c == [ndx \in 1..Len(text) |-> cipher_char(text[ndx], ndx, cipher_key, encrypt)]
        failed == {ndx \in 1..Len(text) : c[ndx].raised # "none"}
    IN  IF failed # {}
        THEN [raised |-> c[CHOOSE ndx \in failed : \A m \in failed : ndx <= m].raised,
              value |-> <<>>]
        ELSE [raised |-> "none", value |-> join([ndx \in 1..Len(text) |-> c[ndx].value])]

\* What print() wrote for the text of line 120.
printed(text) == [msg |-> "Encrypted text:", text |-> text]

\* The files after json.dump (lines 122-129); fs is the pair of files before.
dump_expanded_key(fs, text, cipher_key, key, encrypt) ==
    IF encrypt
    THEN [fs EXCEPT !.encrypted_json =
                       {[encrypted_text |-> text, cipher_key |-> join(cipher_key)]}]
    ELSE [fs EXCEPT !.decrypted_json = {text}]

dump(fs, text, cipher_key, key, encrypt) ==
    IF encrypt
    THEN [fs EXCEPT !.encrypted_json = {[encrypted_text |-> text, cipher_key |-> key]}]
    ELSE [fs EXCEPT !.decrypted_json = {text}]

\* cipher(): nothing is printed or written when the loop raises.
cipher(text, cipher_key, key, encrypt, fs) ==
    LET r == encrypted_text(text, cipher_key, encrypt)
    IN  IF r.raised # "none"
        THEN [raised |-> r.raised, value |-> <<>>, stdout |-> {},
              calls |-> <<"cipher">>, fs |-> fs]
        ELSE [raised |-> "none", value |-> r.value, stdout |-> {printed(r.value)},
              calls |-> <<"cipher">>, fs |-> dump(fs, r.value, cipher_key, key, encrypt)]

-----------------------------------------------------------------------------
(* decipher                                                                *)

\* A decipher() that takes a missing encrypted.json for an empty record.
decipher_missing_as_empty(fs) ==
    LET encrypted_dict == IF fs.encrypted_json = {}
                          THEN [encrypted_text |-> <<>>, cipher_key |-> <<>>]
                          ELSE CHOOSE d \in fs.encrypted_json : TRUE
        g == generate_key(encrypted_dict.encrypted_text, encrypted_dict.cipher_key)
        r == cipher(encrypted_dict.encrypted_text, g.value, encrypted_dict.cipher_key, FALSE, fs)
    IN  IF g.raised # "none"
        THEN [raised |-> g.raised, value |-> <<>>, stdout |-> {},
              calls |-> <<"decipher", "generate_key">>, fs |-> fs]
        ELSE [r EXCEPT !.calls = <<"decipher", "generate_key">> \o @]

\* open("encrypted.json") raises FileNotFoundError when the file is absent;
\* otherwise the key is expanded over the stored text and cipher() decrypts.
decipher(fs) ==
    IF fs.encrypted_json = {}
    THEN [raised |-> "FileNotFoundError", value |-> <<>>, stdout |-> {},
          calls |-> <<"decipher">>, fs |-> fs]
    ELSE LET encrypted_dict == CHOOSE d \in fs.encrypted_json : TRUE
             ciphertext == encrypted_dict.encrypted_text
             key == encrypted_dict.cipher_key
             g == generate_key(ciphertext, key)
             r == cipher(ciphertext, g.value, key, FALSE, fs)
         IN  IF g.raised # "none"
             THEN [raised |-> g.raised, value |-> <<>>, stdout |-> {},
                   calls |-> <<"decipher", "generate_key">>, fs |-> fs]
             ELSE [r EXCEPT !.calls = <<"decipher", "generate_key">> \o @]

-----------------------------------------------------------------------------
(* cli                                                                     *)

\* The positional arguments click hands to cli(): argv holds zero, one or
\* two strings; plaintext is the first and key the second, None when absent.
\* "if plaintext" is true for a string that is present and not empty.
plaintext_true(argv) == Len(argv) >= 1 /\ argv[1] # <<>>

key_is_None(argv) == Len(argv) < 2

\* The empty lines of print() at lines 35 and 38.
blank == [msg |-> "", text |-> <<>>]

usage == [msg |-> "[PLAINTEXT] and [KEY] must appear on the command line together.",
          text |-> <<>>]

\* A cli() without the check of lines 41-43.
cli_unchecked(argv, fs) ==
    IF plaintext_true(argv) /\ ~ key_is_None(argv)
    THEN LET g == generate_key(argv[1], argv[2])
             r == cipher(argv[1], g.value, argv[2], TRUE, fs)
         IN  IF g.raised # "none"
             THEN [raised |-> g.raised, value |-> <<>>, stdout |-> {blank},
                   calls |-> <<"generate_key">>, fs |-> fs]
             ELSE [r EXCEPT !.calls = <<"generate_key">> \o @, !.stdout = {blank} \cup @]
    ELSE [decipher(fs) EXCEPT !.stdout = {blank} \cup @]

\* cli(): lines 41-50.
cli(argv, fs) ==
    IF plaintext_true(argv) /\ key_is_None(argv)
    THEN [raised |-> "SystemExit", value |-> <<>>, stdout |-> {blank, usage},
          calls |-> <<>>, fs |-> fs]
    ELSE IF plaintext_true(argv)
    THEN LET g == generate_key(argv[1], argv[2])
             r == cipher(argv[1], g.value, argv[2], TRUE, fs)
         IN  IF g.raised # "none"
             THEN [raised |-> g.raised, value |-> <<>>, stdout |-> {blank},
                   calls |-> <<"generate_key">>, fs |-> fs]
             ELSE [r EXCEPT !.calls = <<"generate_key">> \o @, !.stdout = {blank} \cup @]
    ELSE [decipher(fs) EXCEPT !.stdout = {blank} \cup @]

-----------------------------------------------------------------------------
(* Inputs                                                                  *)

\* All strings over chars of length at most n.
Strings(chars, n) == UNION {[1..m -> chars] : m \in 0..n}

\* The example of the module docstring (lines 10-14) and the sample of
\* lines 152-153.
ATTACKATDAWN == <<65, 84, 84, 65, 67, 75, 65, 84, 68, 65, 87, 78>>
LEMON == <<76, 69, 77, 79, 78>>
LXFOPVEFRNHR == <<76, 88, 70, 79, 80, 86, 69, 70, 82, 78, 72, 82>>
AttackAtDawn == <<65, 116, 116, 97, 99, 107, 32, 97, 116, 32, 68, 97, 119, 110, 33, 33>>
LeMON == <<76, 101, 77, 79, 78>>

\* Command line: the plaintext is any string over "A", "z" up to the bound;
\* the key is one of "" (empty), "b" (a letter), "1" (not a letter).  The
\* docstring example is one more pair of arguments.
Plaintexts == Strings({65, 122}, MaxTextLen)
Keys == {<<>>, <<98>>, <<49>>}

Argvs == {<<>>} \cup {<<t>> : t \in Plaintexts}
                \cup {<<t, k>> : t \in Plaintexts, k \in Keys}
                \cup {<<ATTACKATDAWN, LEMON>>}

\* generate_key: text over "A", "`", "a", "!"; key over "B", "c", "1",
\* sharp s, Kelvin sign.
FnTexts == Strings({65, 96, 97, 33}, MaxFnTextLen)
FnKeys == Strings({66, 99, 49, 223, 8490}, MaxFnKeyLen)

\* cipher: text over "A", "Z", "b", "!", long s, ligature st; expanded key a
\* list of the strings "B", "z", "1".
CipherTexts == Strings({65, 90, 98, 33, 383, 64262}, MaxCipherTextLen)
CipherKeys == Strings({<<66>>, <<122>>, <<49>>}, MaxCipherKeyLen)

\* cipher() as the program calls it: the expanded key comes from generate_key.
Pipelined ==
    {[text |-> tk[1], key |-> tk[2], cipher_key |-> generate_key(tk[1], tk[2]).value,
      encrypt |-> e] :
        tk \in {<<ATTACKATDAWN, LEMON>>, <<LXFOPVEFRNHR, LEMON>>, <<AttackAtDawn, LeMON>>},
        e \in BOOLEAN}

no_run == [invoked |-> FALSE, argv |-> <<>>, raised |-> "none", stdout |-> {},
           calls |-> <<>>]

no_call == [name |-> "none", done |-> FALSE, text |-> <<>>, key |-> <<>>,
            cipher_key |-> <<>>, encrypt |-> FALSE, raised |-> "none",
            ret_key |-> <<>>, ret_text |-> <<>>, stdout |-> {}]

generate_key_calls ==
    {[no_call EXCEPT !.name = "generate_key", !.text = t, !.key = k] :
        t \in FnTexts, k \in FnKeys}

cipher_calls ==
    {[no_call EXCEPT !.name = "cipher", !.text = t, !.cipher_key = ck,
                     !.key = join(ck), !.encrypt = e] :
        t \in CipherTexts, ck \in CipherKeys, e \in BOOLEAN}
    \cup {[no_call EXCEPT !.name = "cipher", !.text = c.text, !.cipher_key = c.cipher_key,
                          !.key = c.key, !.encrypt = c.encrypt] : c \in Pipelined}

-----------------------------------------------------------------------------
(* The program run from the command line, any number of times.             *)

Init ==
    /\ encrypted_json = {}
    /\ decrypted_json = {}
    /\ run = no_run
    /\ fn = no_call

\* One run of the program with the positional arguments argv.
Invoke(argv) ==
    \E r \in {cli(argv, [encrypted_json |-> encrypted_json,
                          decrypted_json |-> decrypted_json])} :
        /\ encrypted_json' = r.fs.encrypted_json
        /\ decrypted_json' = r.fs.decrypted_json
        /\ run' = [invoked |-> TRUE, argv |-> argv, raised |-> r.raised,
                   stdout |-> r.stdout, calls |-> r.calls]
        /\ UNCHANGED fn

Next == \E argv \in Argvs : Invoke(argv)

Spec == Init /\ [][Next]_vars

-----------------------------------------------------------------------------
(* One direct call of generate_key or of cipher, with no file present.     *)

InitFn ==
    /\ encrypted_json = {}
    /\ decrypted_json = {}
    /\ run = no_run
    /\ fn \in generate_key_calls \cup cipher_calls

Call_generate_key ==
    /\ fn.name = "generate_key"
    /\ ~ fn.done
    /\ LET r == generate_key(fn.text, fn.key)
       IN  fn' = [fn EXCEPT !.done = TRUE, !.raised = r.raised, !.ret_key = r.value]
    /\ UNCHANGED <<encrypted_json, decrypted_json, run>>

Call_cipher ==
    /\ fn.name = "cipher"
    /\ ~ fn.done
    /\ LET r == cipher(fn.text, fn.cipher_key, fn.key, fn.encrypt,
                       [encrypted_json |-> encrypted_json,
                        decrypted_json |-> decrypted_json])
       IN  /\ fn' = [fn EXCEPT !.done = TRUE, !.raised = r.raised,
                                !.ret_text = r.value, !.stdout = r.stdout]
           /\ encrypted_json' = r.fs.encrypted_json
           /\ decrypted_json' = r.fs.decrypted_json
    /\ UNCHANGED run

NextFn == Call_generate_key \/ Call_cipher

SpecFn == InitFn /\ [][NextFn]_vars

-----------------------------------------------------------------------------
(* Vocabulary of the properties                                            *)

IsUpperLetter(c) == c \in 65..90
IsLowerLetter(c) == c \in 97..122
IsAsciiLetter(c) == IsUpperLetter(c) \/ IsLowerLetter(c)

\* The A-Z index (0..25) of an ASCII letter.
LetterIndex(c) == IF IsUpperLetter(c) THEN c - 65 ELSE c - 97

\* The code point of "A" or "a", whichever has the case of the letter c.
CaseBase(c) == IF IsUpperLetter(c) THEN 65 ELSE 97

\* The upper-cased form of the character c is one of the 26 letters A-Z.
UpperIsLetter(c) == Len(upper(<<c>>)) = 1 /\ IsUpperLetter(upper(<<c>>)[1])

\* The textbook Vigenere cipher over letters, everything else copied: the
\* reference the records of the program are compared with.
Vigenere(text, key, encrypt) ==
    [n \in 1..Len(text) |->
        LET c == text[n]
            k == key[((n - 1) % Len(key)) + 1]
        IN  IF ~ IsAsciiLetter(c) THEN c
            ELSE IF encrypt
            THEN CaseBase(c) + ((LetterIndex(c) + LetterIndex(k)) % 26)
            ELSE CaseBase(c) + ((LetterIndex(c) + 26 - LetterIndex(k)) % 26)]

Encrypting == run.invoked /\ Len(run.calls) >= 1 /\ run.calls[1] = "generate_key"
Decrypting == run.invoked /\ Len(run.calls) >= 1 /\ run.calls[1] = "decipher"

\* The same two about the run a step performs.
EncryptingNext == run'.invoked /\ Len(run'.calls) >= 1 /\ run'.calls[1] = "generate_key"
DecryptingNext == run'.invoked /\ Len(run'.calls) >= 1 /\ run'.calls[1] = "decipher"

Called(name) == fn.done /\ fn.name = name

-----------------------------------------------------------------------------
(* C1 *)

\* C1: a decrypt run that directly follows an encrypt run with a non-empty
\* text T and a non-empty key K succeeds and leaves exactly T in the
\* decrypted record.
C1_RoundTrip ==
    [][(/\ run.invoked
        /\ Len(run.argv) = 2
        /\ run.argv[1] # <<>>
        /\ run.argv[2] # <<>>
        /\ run'.argv = <<>>
        /\ DecryptingNext)
       => (run'.raised = "none" /\ decrypted_json' = {run.argv[1]})]_vars

-----------------------------------------------------------------------------
(* C2 *)

\* C2: generate_key called with an empty key raises InvalidKey, whatever the
\* length of the text (0 included).
C2_EmptyKeyRejected ==
    (Called("generate_key") /\ fn.key = <<>>) => fn.raised = "InvalidKey"

-----------------------------------------------------------------------------
(* C3 *)

\* C3: a run deciphers only when no positional argument was given, encrypts
\* only when both were given, and never deciphers when a key came with an
\* empty plaintext.
C3_ModeDispatch ==
    /\ Decrypting => Len(run.argv) = 0
    /\ Encrypting => Len(run.argv) = 2
    /\ (run.invoked /\ Len(run.argv) = 2 /\ run.argv[1] = <<>>) => ~ Decrypting

-----------------------------------------------------------------------------
(* C4 *)

-----------------------------------------------------------------------------
(* C5 *)

\* C5: for a non-empty key, generate_key returns one element per text
\* position, the key character at (position mod key length), in lower case
\* when the text character's code point is >= 97 and in upper case otherwise.
C5_KeyExpansion ==
    (Called("generate_key") /\ fn.key # <<>>)
    => /\ fn.raised = "none"
       /\ Len(fn.ret_key) = Len(fn.text)
       /\ \A n \in 0..(Len(fn.text) - 1) :
            LET K == fn.key[(n % Len(fn.key)) + 1]
            IN  fn.ret_key[n + 1] =
                   IF fn.text[n + 1] >= 97 THEN lower_char(K) ELSE upper_char(K)

\* The key wraps around, and the text asks for both cases.
C5_Witness ==
    /\ Called("generate_key")
    /\ fn.key # <<>>
    /\ Len(fn.text) > Len(fn.key)
    /\ \E n \in 1..Len(fn.text) : fn.text[n] = 97
    /\ \E n \in 1..Len(fn.text) : fn.text[n] < 97
    /\ \E n \in 1..Len(fn.ret_key) : fn.ret_key[n] # <<fn.key[((n - 1) % Len(fn.key)) + 1]>>

-----------------------------------------------------------------------------
(* C6 *)

\* C6: when cipher returns, every position holding an ASCII letter with
\* index p holds in the output the letter of index (p + k) mod 26 on encrypt
\* and the letter of the non-negative index (p - k) mod 26 on decrypt, in the
\* case of the text letter, k being the index of the upper-cased key
\* character; and ATTACKATDAWN under LEMON becomes LXFOPVEFRNHR.
C6_LetterShift ==
    /\ (Called("cipher") /\ fn.raised = "none")
       => \A n \in 1..Len(fn.text) :
            IsAsciiLetter(fn.text[n])
            => LET p == LetterIndex(fn.text[n])
                   k == LetterIndex(upper(fn.cipher_key[n])[1])
                   o == fn.ret_text[n] - CaseBase(fn.text[n])
               IN  /\ o \in 0..25
                   /\ IF fn.encrypt THEN o = (p + k) % 26 ELSE (o + k) % 26 = p
    /\ (Called("cipher") /\ fn.encrypt /\ fn.text = ATTACKATDAWN /\ fn.key = LEMON)
       => (fn.raised = "none" /\ fn.ret_text = LXFOPVEFRNHR)

\* A decryption whose difference p - k is negative.
C6_Witness ==
    /\ Called("cipher") /\ fn.raised = "none" /\ ~ fn.encrypt
    /\ \E n \in 1..Len(fn.text) :
         /\ IsAsciiLetter(fn.text[n])
         /\ LetterIndex(fn.text[n]) < LetterIndex(upper(fn.cipher_key[n])[1])

-----------------------------------------------------------------------------
(* C7 *)

\* C7: in both modes cipher copies every character whose upper-cased form
\* is not one of A-Z to the same position of the output, whatever the key
\* character there, and the output is as long as the text; a text made only
\* of such characters is therefore returned as it is.
C7_PassThrough ==
    Called("cipher")
    => LET other == {n \in 1..Len(fn.text) : ~ UpperIsLetter(fn.text[n])}
       IN  /\ other = 1..Len(fn.text) => fn.raised = "none"
           /\ fn.raised = "none"
              => /\ Len(fn.ret_text) = Len(fn.text)
                 /\ \A n \in other : fn.ret_text[n] = fn.text[n]

-----------------------------------------------------------------------------
(* C8 *)

\* C8: cipher called with an expanded key that is not as long as the text
\* fails (any exception is taken for the LengthMismatch error), prints
\* nothing and writes no record.
C8_LengthMismatch ==
    (Called("cipher") /\ Len(fn.cipher_key) # Len(fn.text))
    => /\ fn.raised # "none"
       /\ fn.stdout = {}
       /\ encrypted_json = {}
       /\ decrypted_json = {}

-----------------------------------------------------------------------------
(* C9 *)

\* C9: the encrypted record changes only in an encrypt run that succeeds,
\* and then holds the ciphertext and the key as it was typed; a decrypt run
\* that succeeds writes the text decrypted from that pair, and nothing else,
\* to the decrypted record; no other run touches the decrypted record.
C9_PersistedRecords ==
    [][/\ IF EncryptingNext /\ run'.raised = "none"
          THEN encrypted_json' =
                  {[encrypted_text |-> Vigenere(run'.argv[1], run'.argv[2], TRUE),
                    cipher_key |-> run'.argv[2]]}
          ELSE encrypted_json' = encrypted_json
       /\ IF DecryptingNext /\ run'.raised = "none"
          THEN /\ encrypted_json # {}
               /\ decrypted_json' =
                     {Vigenere(d.encrypted_text, d.cipher_key, FALSE) : d \in encrypted_json}
          ELSE decrypted_json' = decrypted_json]_vars

\* A decrypt run has read a record whose key is shorter than its text.
C9_Witness ==
    /\ Decrypting /\ run.raised = "none"
    /\ decrypted_json # {}
    /\ \E d \in encrypted_json :
         /\ Len(d.cipher_key) < Len(d.encrypted_text)
         /\ d.encrypted_text \notin decrypted_json

-----------------------------------------------------------------------------
(* C10 *)

\* C10: a decrypt run with no encrypted record raises FileNotFoundError and
\* there is no decrypted record afterwards.
C10_MissingRecord ==
    (Decrypting /\ encrypted_json = {})
    => (run.raised = "FileNotFoundError" /\ decrypted_json = {})

\* A decrypt run ended without an encrypted record.
C10_Witness == Decrypting /\ encrypted_json = {} /\ run.raised = "FileNotFoundError"

=============================================================================
